---- MODULE Spec2Model ----
(***************************************************************************)
(* Model of the legal-marketplace backend.                                 *)
(*                                                                         *)
(* Two stores are modelled, as in the source:                              *)
(*   - the MySQL `cases` table driven by controllers/caseController.js     *)
(*     (each `await pool.execute` is one atomic statement; two requests    *)
(*     may interleave between statements);                                 *)
(*   - the mongoose collections CasePost, Bid, Review, LawyerProfile with  *)
(*     their pre/post hooks (models/*.js).  A post hook calls the          *)
(*     recompute static without awaiting it, so a recompute is a task in   *)
(*     flight with two store steps: the aggregate scan and the update.     *)
(***************************************************************************)
EXTENDS Integers, Sequences, FiniteSets, TLC

VARIABLES
    cases,      \* MySQL table cases: a set of rows
    nextId,     \* AUTO_INCREMENT counter of cases.id
    now,        \* logical clock behind NOW()
    reqs,       \* HTTP requests in flight, one per connection slot
    nReq,       \* requests accepted so far
    casePosts,  \* mongoose CasePost collection: id -> document
    bids,       \* mongoose Bid collection: set of documents
    reviews,    \* mongoose Review collection: set of documents
    profiles,   \* mongoose LawyerProfile collection: user -> document
    userDocs,   \* mongoose User documents: the paths updated by getAverageRating
    tasks,      \* recompute calls in flight (not awaited by the post hooks)
    nOps,       \* model-level operations performed so far
    lastUpdate, \* last update command each recompute target received
    outcome     \* result of the last mongoose save()/remove() call

sqlVars == <<cases, nextId, now, reqs, nReq>>
mongoVars == <<casePosts, bids, reviews, profiles, userDocs, tasks, nOps, lastUpdate, outcome>>
vars == <<cases, nextId, now, reqs, nReq, casePosts, bids, reviews, profiles,
          userDocs, tasks, nOps, lastUpdate, outcome>>

----------------------------------------------------------------------------
(* Bounds *)
MaxCases == 2
MaxReqs == 3

(* The users table: role ENUM('client','lawyer','admin'); roles never change. *)
Users == {"c1", "c2", "l1", "l2", "a1"}

RoleOf(u) ==
    CASE u \in {"c1", "c2"} -> "client"
      [] u \in {"l1", "l2"} -> "lawyer"
      [] OTHER -> "admin"

Null == "NULL"

----------------------------------------------------------------------------
(* controllers/caseController.js over the MySQL cases table *)

Slots == {"s1", "s2"}
CaseIds == 1..MaxCases

\* request bodies: title, description, category, status
Bodies ==
    { [title |-> "t1", description |-> "d1", category |-> "Tax", status |-> "open"],
      [title |-> "t2", description |-> "d2", category |-> "Other", status |-> "closed"] }

NoBody == [title |-> Null, description |-> Null, category |-> Null, status |-> Null]

Idle ==
    [pc |-> "idle", handler |-> Null, actor |-> Null, id |-> 0, body |-> NoBody,
     code |-> 0, msg |-> Null, rows |-> {}]

SelectById(id) == {r \in cases : r.id = id}

\* mutant: the lawyer branch of the filter is missing
RoleFilterNoLawyerScope(actor, r) ==
    IF RoleOf(actor) = "client" THEN r.user_id = actor ELSE TRUE

\* the role-scoped WHERE clause of getAllCases / getCaseById
RoleFilter(actor, r) ==
    IF RoleOf(actor) = "client" THEN r.user_id = actor
    ELSE IF RoleOf(actor) = "lawyer" THEN r.status = "open"
    ELSE TRUE

\* mutant: the ownership comparison is missing, any client passes
NotAuthorizedRoleOnly(actor, caseItem) ==
    RoleOf(actor) # "admin" /\ RoleOf(actor) # "client"

\* the permission check of updateCase / deleteCase
NotAuthorized(actor, caseItem) ==
    RoleOf(actor) # "admin" /\ caseItem.user_id # actor

Accept(s, handler, actor, id, body) ==
    [Idle EXCEPT !.handler = handler, !.actor = actor, !.id = id, !.body = body]

CanStart(s) == reqs[s].pc = "idle" /\ nReq < MaxReqs

getAllCases(s, actor) ==
    /\ CanStart(s)
    /\ reqs' = [reqs EXCEPT ![s] =
          [Accept(s, "getAllCases", actor, 0, NoBody) EXCEPT
              !.pc = "done", !.code = 200,
              !.rows = {r \in cases : RoleFilter(actor, r)}]]
    /\ nReq' = nReq + 1
    /\ UNCHANGED <<cases, nextId, now>>
    /\ UNCHANGED mongoVars

getCaseById(s, actor, id) ==
    /\ CanStart(s)
    /\ LET found == {r \in SelectById(id) : RoleFilter(actor, r)}
           a == Accept(s, "getCaseById", actor, id, NoBody)
       IN reqs' = [reqs EXCEPT ![s] =
             IF found = {}
             THEN [a EXCEPT !.pc = "done", !.code = 404, !.msg = "Case not found"]
             ELSE [a EXCEPT !.pc = "done", !.code = 200, !.rows = found]]
    /\ nReq' = nReq + 1
    /\ UNCHANGED <<cases, nextId, now>>
    /\ UNCHANGED mongoVars

NewRow(id, actor, body) ==
    [id |-> id, user_id |-> actor, title |-> body.title,
     description |-> body.description, category |-> body.category,
     status |-> "open", currency |-> "USD", budget |-> Null,
     created_at |-> now, updated_at |-> now]

\* mutant: the check turns away lawyers only
CreateDeniedLawyersOnly(actor) == RoleOf(actor) = "lawyer"

\* only clients can create cases
CreateDenied(actor) == RoleOf(actor) # "client"

\* role check, then INSERT INTO cases
createCase(s, actor, body) ==
    /\ CanStart(s)
    /\ nReq' = nReq + 1
    /\ LET a == Accept(s, "createCase", actor, 0, body)
       IN IF CreateDenied(actor)
          THEN /\ reqs' = [reqs EXCEPT ![s] =
                    [a EXCEPT !.pc = "done", !.code = 403,
                              !.msg = "Only clients can create cases"]]
               /\ UNCHANGED <<cases, nextId, now>>
          ELSE /\ nextId <= MaxCases
               /\ cases' = cases \cup {NewRow(nextId, actor, body)}
               /\ nextId' = nextId + 1
               /\ now' = now + 1
               /\ reqs' = [reqs EXCEPT ![s] = [a EXCEPT !.pc = "created", !.id = nextId]]
    /\ UNCHANGED mongoVars

\* SELECT * FROM cases WHERE id = insertId; respond 201 with newCase[0]
createCaseSelect(s) ==
    /\ reqs[s].pc = "created"
    /\ reqs' = [reqs EXCEPT ![s].pc = "done", ![s].code = 201,
                            ![s].rows = SelectById(reqs[s].id)]
    /\ UNCHANGED <<cases, nextId, now, nReq>>
    /\ UNCHANGED mongoVars

\* existence check (404), then permission check (403)
CheckExisting(s, handler, actor, id, body, next, denied) ==
    LET existingCases == SelectById(id)
        a == Accept(s, handler, actor, id, body)
    IN reqs' = [reqs EXCEPT ![s] =
          IF existingCases = {}
          THEN [a EXCEPT !.pc = "done", !.code = 404, !.msg = "Case not found"]
          ELSE IF \E caseItem \in existingCases : NotAuthorized(actor, caseItem)
          THEN [a EXCEPT !.pc = "done", !.code = 403, !.msg = denied]
          ELSE [a EXCEPT !.pc = next]]

updateCase(s, actor, id, body) ==
    /\ CanStart(s)
    /\ nReq' = nReq + 1
    /\ CheckExisting(s, "updateCase", actor, id, body, "update",
                     "Not authorized to update this case")
    /\ UNCHANGED <<cases, nextId, now>>
    /\ UNCHANGED mongoVars

\* mutant: the UPDATE also resets created_at and reassigns the row to user c1
UpdateRowTakesOver(r, body) ==
    [r EXCEPT !.title = body.title, !.description = body.description,
              !.category = body.category, !.status = body.status,
              !.updated_at = now, !.created_at = now, !.user_id = "c1"]

\* UPDATE cases SET title, description, category, status, updated_at WHERE id
UpdateRow(r, body) ==
    [r EXCEPT !.title = body.title, !.description = body.description,
              !.category = body.category, !.status = body.status,
              !.updated_at = now]

updateCaseUpdate(s) ==
    /\ reqs[s].pc = "update"
    /\ cases' = {IF r.id = reqs[s].id THEN UpdateRow(r, reqs[s].body) ELSE r : r \in cases}
    /\ now' = now + 1
    /\ reqs' = [reqs EXCEPT ![s].pc = "updated"]
    /\ UNCHANGED <<nextId, nReq>>
    /\ UNCHANGED mongoVars

\* SELECT the updated case; respond 200 with updatedCase[0]
updateCaseSelect(s) ==
    /\ reqs[s].pc = "updated"
    /\ reqs' = [reqs EXCEPT ![s].pc = "done", ![s].code = 200,
                            ![s].rows = SelectById(reqs[s].id)]
    /\ UNCHANGED <<cases, nextId, now, nReq>>
    /\ UNCHANGED mongoVars

deleteCase(s, actor, id) ==
    /\ CanStart(s)
    /\ nReq' = nReq + 1
    /\ CheckExisting(s, "deleteCase", actor, id, NoBody, "delete",
                     "Not authorized to delete this case")
    /\ UNCHANGED <<cases, nextId, now>>
    /\ UNCHANGED mongoVars

\* DELETE FROM cases WHERE id; respond 200
deleteCaseDelete(s) ==
    /\ reqs[s].pc = "delete"
    /\ cases' = {r \in cases : r.id # reqs[s].id}
    /\ reqs' = [reqs EXCEPT ![s].pc = "done", ![s].code = 200,
                            ![s].msg = "Case deleted successfully"]
    /\ UNCHANGED <<nextId, now, nReq>>
    /\ UNCHANGED mongoVars

\* the response has been sent; the connection slot is free again
Respond(s) ==
    /\ reqs[s].pc = "done"
    /\ reqs' = [reqs EXCEPT ![s] = Idle]
    /\ UNCHANGED <<cases, nextId, now, nReq>>
    /\ UNCHANGED mongoVars

----------------------------------------------------------------------------
(* mongoose models: CasePost, Bid and the average-bid recompute *)

MaxOps == 3

PostIds == {"p1", "p2"}
Amounts == {1, 2}

EmptyDoc == [f \in {} |-> Null]
NoOutcome == [op |-> Null, by |-> Null, to |-> Null, on |-> Null, err |-> Null, again |-> FALSE]

\* the result of a save()/remove() call; `again` marks the repetition of the
\* call that was made, and failed, just before
Result(op, by, to, on, err) ==
    [op |-> op, by |-> by, to |-> to, on |-> on, err |-> err,
     again |-> (outcome.op = op /\ outcome.by = by /\ outcome.to = to
                /\ outcome.on = on /\ outcome.err # "ok")]

\* the paths casePostSchema declares
CasePostPaths ==
    {"title", "description", "category", "budget", "status", "client",
     "acceptedBid", "deadline", "location", "isRemote", "files"}

\* Model.findByIdAndUpdate / findOneAndUpdate on a schema in (default) strict
\* mode: only the paths the schema declares are written
StrictUpdate(doc, patch, paths) ==
    [f \in DOMAIN doc \cup (DOMAIN patch \cap paths) |->
        IF f \in DOMAIN patch \cap paths THEN patch[f] ELSE doc[f]]

CanOp == nOps < MaxOps

\* casePostSchema.pre('save'): only clients can post cases
CasePostPreSave(client) ==
    IF RoleOf(client) # "client" THEN "Only clients can post cases" ELSE "ok"

\* new CasePost({client}).save()
SaveCasePost(p, client) ==
    /\ p \notin DOMAIN casePosts
    /\ LET err == CasePostPreSave(client)
       IN /\ outcome' = Result("CasePost.save", client, Null, p, err)
          /\ IF err # "ok"
             THEN UNCHANGED casePosts
             ELSE casePosts' = (p :> [client |-> client, status |-> "open"]) @@ casePosts
    /\ UNCHANGED <<bids, reviews, profiles, userDocs, tasks, nOps, lastUpdate>>
    /\ UNCHANGED sqlVars

\* mutant: the hook rejects clients only
BidPreSaveClientsOnly(lawyer) ==
    IF RoleOf(lawyer) = "client" THEN "Only lawyers can place bids" ELSE "ok"

\* bidSchema.pre('save'): only lawyers can place bids
BidPreSave(lawyer) ==
    IF RoleOf(lawyer) # "lawyer" THEN "Only lawyers can place bids" ELSE "ok"

\* mutant: the index is not unique
BidIndexNotUnique(lawyer, p) == FALSE

\* the unique index {lawyer: 1, casePost: 1} rejects the insert
BidIndexRejects(lawyer, p) ==
    \E b \in bids : b.lawyer = lawyer /\ b.casePost = p

NewTask(kind, key) == [id |-> nOps + 1, kind |-> kind, key |-> key, phase |-> "scan", n |-> 0, sum |-> 0]

\* new Bid({lawyer, casePost, amount}).save(): pre('save'), insert, post('save')
SaveBid(lawyer, p, amount) ==
    /\ CanOp
    /\ LET err == IF BidPreSave(lawyer) # "ok" THEN BidPreSave(lawyer)
                  ELSE IF BidIndexRejects(lawyer, p) THEN "E11000 duplicate key"
                  ELSE "ok"
       IN /\ outcome' = Result("Bid.save", lawyer, Null, p, err)
          /\ IF err # "ok"
             THEN UNCHANGED <<bids, tasks, nOps>>
             ELSE /\ bids' = bids \cup {[id |-> nOps + 1, lawyer |-> lawyer,
                                         casePost |-> p, amount |-> amount]}
                  /\ tasks' = tasks \cup {NewTask("getAverageBid", p)}
                  /\ nOps' = nOps + 1
    /\ UNCHANGED <<casePosts, reviews, profiles, userDocs, lastUpdate>>
    /\ UNCHANGED sqlVars

\* bid.remove(): delete, post('remove')
RemoveBid(b) ==
    /\ CanOp
    /\ b \in bids
    /\ bids' = bids \ {b}
    /\ tasks' = tasks \cup {NewTask("getAverageBid", b.casePost)}
    /\ nOps' = nOps + 1
    /\ outcome' = Result("Bid.remove", b.lawyer, Null, b.casePost, "ok")
    /\ UNCHANGED <<casePosts, reviews, profiles, userDocs, lastUpdate>>
    /\ UNCHANGED sqlVars

\* $sum / $avg accumulate over the matched documents
RECURSIVE SumAmount(_)
SumAmount(S) ==
    IF S = {} THEN 0
    ELSE LET x == CHOOSE y \in S : TRUE IN x.amount + SumAmount(S \ {x})

\* Math.ceil(sum / n) for n > 0
Ceil(sum, n) == (sum + n - 1) \div n

\* getAverageBid, first await: $match {casePost}, $group {$avg amount, $sum 1}
getAverageBidAggregate(t) ==
    /\ t \in tasks /\ t.kind = "getAverageBid" /\ t.phase = "scan"
    /\ LET matched == {b \in bids : b.casePost = t.key}
       IN tasks' = (tasks \ {t}) \cup
             {[t EXCEPT !.phase = "update", !.n = Cardinality(matched),
                        !.sum = SumAmount(matched)]}
    /\ UNCHANGED <<casePosts, bids, reviews, profiles, userDocs, nOps, lastUpdate, outcome>>
    /\ UNCHANGED sqlVars

\* the update getAverageBid sends: obj[0] ? ceil(avg), count : 0, 0
BidPatch(t) ==
    [averageBid |-> IF t.n > 0 THEN Ceil(t.sum, t.n) ELSE 0,
     bidCount |-> IF t.n > 0 THEN t.n ELSE 0]

\* getAverageBid, second await: CasePost.findByIdAndUpdate(casePostId, {...})
getAverageBidUpdate(t) ==
    /\ t \in tasks /\ t.kind = "getAverageBid" /\ t.phase = "update"
    /\ casePosts' =
          [p \in DOMAIN casePosts |->
              IF p = t.key THEN StrictUpdate(casePosts[p], BidPatch(t), CasePostPaths)
              ELSE casePosts[p]]
    /\ lastUpdate' = (t.key :> BidPatch(t)) @@ lastUpdate
    /\ tasks' = tasks \ {t}
    /\ UNCHANGED <<bids, reviews, profiles, userDocs, nOps, outcome>>
    /\ UNCHANGED sqlVars

\* mutant: the hook awaits the recompute and passes its error on, so the
\* save()/remove() that triggered it fails and its write is undone
HookAwaitsRecompute(t) ==
    /\ bids' = {b \in bids : b.id # t.id}
    /\ reviews' = {r \in reviews : r.id # t.id}
    /\ outcome' = [outcome EXCEPT !.err = "recompute failed"]

\* post('save') / post('remove'): the hook calls the recompute and drops the
\* promise it returns, so nothing the recompute throws reaches the
\* save()/remove() that ran the hook
HookDropsPromise(t) == UNCHANGED <<bids, reviews, outcome>>

\* getAverageBid, first await throws: this.aggregate is outside the try, the
\* dropped promise is rejected and nobody handles it
getAverageBidAggregateThrows(t) ==
    /\ t \in tasks /\ t.kind = "getAverageBid" /\ t.phase = "scan"
    /\ tasks' = (tasks \ {t}) \cup {[t EXCEPT !.phase = "rejected"]}
    /\ HookDropsPromise(t)
    /\ UNCHANGED <<casePosts, profiles, userDocs, nOps, lastUpdate>>
    /\ UNCHANGED sqlVars

\* getAverageBid, second await throws: catch (err) { console.error(err) }
getAverageBidUpdateThrows(t) ==
    /\ t \in tasks /\ t.kind = "getAverageBid" /\ t.phase = "update"
    /\ tasks' = (tasks \ {t}) \cup {[t EXCEPT !.phase = "logged", !.n = 0, !.sum = 0]}
    /\ HookDropsPromise(t)
    /\ UNCHANGED <<casePosts, profiles, userDocs, nOps, lastUpdate>>
    /\ UNCHANGED sqlVars

----------------------------------------------------------------------------
(* mongoose models: Review and the average-rating recompute *)

Ratings == {4, 5}
PostStatuses == {"open", "in-progress", "completed", "cancelled"}

\* CasePost.findByIdAndUpdate(p, {status})
SetStatus(p, st) ==
    /\ p \in DOMAIN casePosts
    /\ casePosts' = [casePosts EXCEPT ![p] = StrictUpdate(@, [status |-> st], CasePostPaths)]
    /\ UNCHANGED <<bids, reviews, profiles, userDocs, tasks, nOps, lastUpdate, outcome>>
    /\ UNCHANGED sqlVars

\* CasePost.findByIdAndUpdate(p, {acceptedBid})
SetAcceptedBid(p, b) ==
    /\ p \in DOMAIN casePosts
    /\ b \in bids
    /\ casePosts' = [casePosts EXCEPT ![p] = StrictUpdate(@, [acceptedBid |-> b.id], CasePostPaths)]
    /\ UNCHANGED <<bids, reviews, profiles, userDocs, tasks, nOps, lastUpdate, outcome>>
    /\ UNCHANGED sqlVars

\* mutant: populate without its match on the lawyer
PopulatedAcceptedBidAnyLawyer(doc, lawyer) ==
    {b \in bids : b.id = doc.acceptedBid}

\* populate({path: 'acceptedBid', match: {lawyer}}): the referenced bid, or
\* nothing when it is gone or belongs to another lawyer
PopulatedAcceptedBid(doc, lawyer) ==
    {b \in bids : b.id = doc.acceptedBid /\ b.lawyer = lawyer}

\* CasePost.findOne({_id, client, status: 'completed', acceptedBid: {$exists: true}})
FindCompletedCase(user, p) ==
    {q \in DOMAIN casePosts \cap {p} :
        /\ casePosts[q].client = user
        /\ casePosts[q].status = "completed"
        /\ "acceptedBid" \in DOMAIN casePosts[q]}

\* reviewSchema.pre('save')
ReviewPreSave(user, lawyer, p) ==
    IF RoleOf(user) # "client" THEN "Only clients can leave reviews"
    ELSE IF \/ FindCompletedCase(user, p) = {}
            \/ \E q \in FindCompletedCase(user, p) :
                  PopulatedAcceptedBid(casePosts[q], lawyer) = {}
    THEN "You can only review lawyers you've worked with on a completed case"
    ELSE "ok"

\* the unique index {user: 1, lawyer: 1, casePost: 1} rejects the insert
ReviewIndexRejects(user, lawyer, p) ==
    \E r \in reviews : r.user = user /\ r.lawyer = lawyer /\ r.casePost = p

\* new Review({user, lawyer, casePost, rating}).save()
SaveReview(user, lawyer, p, rating) ==
    /\ CanOp
    /\ LET pre == ReviewPreSave(user, lawyer, p)
           err == IF pre # "ok" THEN pre
                  ELSE IF ReviewIndexRejects(user, lawyer, p) THEN "E11000 duplicate key"
                  ELSE "ok"
       IN /\ outcome' = Result("Review.save", user, lawyer, p, err)
          /\ IF err # "ok"
             THEN UNCHANGED <<reviews, tasks, nOps>>
             ELSE /\ reviews' = reviews \cup {[id |-> nOps + 1, user |-> user, lawyer |-> lawyer,
                                               casePost |-> p, rating |-> rating]}
                  /\ tasks' = tasks \cup {NewTask("getAverageRating", lawyer)}
                  /\ nOps' = nOps + 1
    /\ UNCHANGED <<casePosts, bids, profiles, userDocs, lastUpdate>>
    /\ UNCHANGED sqlVars

\* review.remove(): delete, post('remove')
RemoveReview(r) ==
    /\ CanOp
    /\ r \in reviews
    /\ reviews' = reviews \ {r}
    /\ tasks' = tasks \cup {NewTask("getAverageRating", r.lawyer)}
    /\ nOps' = nOps + 1
    /\ outcome' = Result("Review.remove", r.user, r.lawyer, r.casePost, "ok")
    /\ UNCHANGED <<casePosts, bids, profiles, userDocs, lastUpdate>>
    /\ UNCHANGED sqlVars

RECURSIVE SumRating(_)
SumRating(S) ==
    IF S = {} THEN 0
    ELSE LET x == CHOOSE y \in S : TRUE IN x.rating + SumRating(S \ {x})

\* an average rounded to one decimal, in tenths (45 is 4.5): toFixed(1) and
\* Math.round(val * 10) / 10
RoundTenths(sum, n) == (20 * sum + n) \div (2 * n)

\* getAverageRating, first await: $match {lawyer}, $group {$avg rating, $sum 1}
getAverageRatingAggregate(t) ==
    /\ t \in tasks /\ t.kind = "getAverageRating" /\ t.phase = "scan"
    /\ LET matched == {r \in reviews : r.lawyer = t.key}
       IN tasks' = (tasks \ {t}) \cup
             {[t EXCEPT !.phase = "update", !.n = Cardinality(matched),
                        !.sum = SumRating(matched)]}
    /\ UNCHANGED <<casePosts, bids, reviews, profiles, userDocs, nOps, lastUpdate, outcome>>
    /\ UNCHANGED sqlVars

\* getAverageRating, second await: User.findByIdAndUpdate(lawyerId,
\* {averageRating, reviewCount}); the LawyerProfile is not touched
getAverageRatingUpdate(t) ==
    /\ t \in tasks /\ t.kind = "getAverageRating" /\ t.phase = "update"
    /\ userDocs' = (t.key :> [averageRating |-> IF t.n > 0 THEN RoundTenths(t.sum, t.n) ELSE 0,
                              reviewCount |-> IF t.n > 0 THEN t.n ELSE 0]) @@ userDocs
    /\ tasks' = tasks \ {t}
    /\ UNCHANGED <<casePosts, bids, reviews, profiles, nOps, lastUpdate, outcome>>
    /\ UNCHANGED sqlVars

\* getAverageRating, first await throws: this.aggregate is outside the try
getAverageRatingAggregateThrows(t) ==
    /\ t \in tasks /\ t.kind = "getAverageRating" /\ t.phase = "scan"
    /\ tasks' = (tasks \ {t}) \cup {[t EXCEPT !.phase = "rejected"]}
    /\ HookDropsPromise(t)
    /\ UNCHANGED <<casePosts, profiles, userDocs, nOps, lastUpdate>>
    /\ UNCHANGED sqlVars

\* getAverageRating, second await throws: catch (err) { console.error(err) }
getAverageRatingUpdateThrows(t) ==
    /\ t \in tasks /\ t.kind = "getAverageRating" /\ t.phase = "update"
    /\ tasks' = (tasks \ {t}) \cup {[t EXCEPT !.phase = "logged", !.n = 0, !.sum = 0]}
    /\ HookDropsPromise(t)
    /\ UNCHANGED <<casePosts, profiles, userDocs, nOps, lastUpdate>>
    /\ UNCHANGED sqlVars

----------------------------------------------------------------------------
(* mongoose model: LawyerProfile *)

\* the paths of lawyerProfileSchema the model carries
LawyerProfilePaths ==
    {"user", "bio", "specializations", "experience", "education", "languages",
     "ratingsAverage", "ratingsQuantity", "completedCases", "isProfileComplete"}

\* an optional path is given as a set of at most one value
ProfileFields(bio, experience, specializations, education, languages) ==
    [f \in {"specializations", "education", "languages"}
           \cup (IF bio = {} THEN {} ELSE {"bio"})
           \cup (IF experience = {} THEN {} ELSE {"experience"}) |->
        CASE f = "bio" -> CHOOSE x \in bio : TRUE
          [] f = "experience" -> CHOOSE x \in experience : TRUE
          [] f = "specializations" -> specializations
          [] f = "education" -> education
          [] OTHER -> languages]

\* what a caller may put in a profile; arrays default to []
ProfileInputs ==
    {ProfileFields(b, e, sp, ed, la) :
        b \in {{}, {""}, {"bio"}}, e \in {{}, {0}}, sp \in {{}, {"Tax"}},
        ed \in {{}, {"LLB"}}, la \in {{}, {"English"}}}

\* the JavaScript value of
\*   this.bio && this.specializations && this.specializations.length > 0 &&
\*   this.experience !== undefined && this.education && ... length > 0 && ...
\* which is the first falsy operand, or the last operand
ProfileCompleteValue(doc) ==
    IF "bio" \notin DOMAIN doc THEN "undefined"
    ELSE IF doc.bio = "" THEN "empty string"
    ELSE IF doc.specializations = {} THEN "false"
    ELSE IF "experience" \notin DOMAIN doc THEN "false"
    ELSE IF doc.education = {} THEN "false"
    ELSE IF doc.languages = {} THEN "false"
    ELSE "true"

\* this.isProfileComplete = value, on a path of type Boolean: a boolean is
\* stored, undefined unsets the path, and '' is either cast with !! (mongoose
\* 4) or refused by the cast so that the path keeps its value (mongoose 5+)
SetIsProfileComplete(doc, value, strictCast) ==
    CASE value = "true" -> ("isProfileComplete" :> TRUE) @@ doc
      [] value = "false" -> ("isProfileComplete" :> FALSE) @@ doc
      [] value = "undefined" -> [f \in DOMAIN doc \ {"isProfileComplete"} |-> doc[f]]
      [] OTHER -> IF strictCast THEN doc ELSE ("isProfileComplete" :> FALSE) @@ doc

\* the schema defaults of a new profile
NewProfile ==
    [ratingsAverage |-> 0, ratingsQuantity |-> 0, isProfileComplete |-> FALSE]

\* the stored profile with its content paths replaced by the caller's
Assign(u, fields) ==
    LET old == IF u \in DOMAIN profiles THEN profiles[u] ELSE NewProfile
    IN [f \in DOMAIN fields \cup (DOMAIN old \cap DOMAIN NewProfile) |->
           IF f \in DOMAIN fields THEN fields[f] ELSE old[f]]

\* lawyerProfileSchema.pre('save'), role check
ProfilePreSave(u) ==
    IF RoleOf(u) # "lawyer" THEN "Only lawyers can have a lawyer profile" ELSE "ok"

\* profile.save(): pre('save'), write, post('save')
SaveProfile(u, fields, strictCast) ==
    /\ CanOp
    /\ LET err == ProfilePreSave(u)
       IN /\ outcome' = Result("LawyerProfile.save", u, Null, Null, err)
          /\ IF err # "ok"
             THEN UNCHANGED <<profiles, tasks, nOps>>
             ELSE /\ profiles' =
                        (u :> SetIsProfileComplete(Assign(u, fields),
                                  ProfileCompleteValue(Assign(u, fields)), strictCast))
                        @@ profiles
                  /\ tasks' = tasks \cup {NewTask("calcAverageRating", u)}
                  /\ nOps' = nOps + 1
    /\ UNCHANGED <<casePosts, bids, reviews, userDocs, lastUpdate>>
    /\ UNCHANGED sqlVars

\* calcAverageRating, first await: $match {user}, $lookup reviews, $unwind,
\* $group {$sum 1, $avg reviews.rating}
calcAverageRatingAggregate(t) ==
    /\ t \in tasks /\ t.kind = "calcAverageRating" /\ t.phase = "scan"
    /\ LET joined == IF t.key \in DOMAIN profiles
                     THEN {r \in reviews : r.lawyer = t.key} ELSE {}
       IN tasks' = (tasks \ {t}) \cup
             {[t EXCEPT !.phase = "update", !.n = Cardinality(joined),
                        !.sum = SumRating(joined)]}
    /\ UNCHANGED <<casePosts, bids, reviews, profiles, userDocs, nOps, lastUpdate, outcome>>
    /\ UNCHANGED sqlVars

\* calcAverageRating, second await: LawyerProfile.findOneAndUpdate({user},
\* {ratingsQuantity, ratingsAverage}), the average through the path's setter
calcAverageRatingUpdate(t) ==
    /\ t \in tasks /\ t.kind = "calcAverageRating" /\ t.phase = "update"
    /\ profiles' =
          [u \in DOMAIN profiles |->
              IF u = t.key
              THEN StrictUpdate(profiles[u],
                      [ratingsQuantity |-> t.n,
                       ratingsAverage |-> IF t.n > 0 THEN RoundTenths(t.sum, t.n) ELSE 0],
                      LawyerProfilePaths)
              ELSE profiles[u]]
    /\ tasks' = tasks \ {t}
    /\ UNCHANGED <<casePosts, bids, reviews, userDocs, nOps, lastUpdate, outcome>>
    /\ UNCHANGED sqlVars

----------------------------------------------------------------------------
InitSql ==
    /\ cases = {}
    /\ nextId = 1
    /\ now = 0
    /\ reqs = [s \in Slots |-> Idle]
    /\ nReq = 0

InitMongo ==
    /\ casePosts = EmptyDoc
    /\ bids = {}
    /\ reviews = {}
    /\ profiles = EmptyDoc
    /\ userDocs = EmptyDoc
    /\ tasks = {}
    /\ nOps = 0
    /\ lastUpdate = EmptyDoc
    /\ outcome = NoOutcome

Init == InitSql /\ InitMongo

NextCase ==
    \E s \in Slots :
        \/ \E actor \in Users : getAllCases(s, actor)
        \/ \E actor \in Users, id \in CaseIds : getCaseById(s, actor, id)
        \/ \E actor \in Users, body \in Bodies : createCase(s, actor, body)
        \/ createCaseSelect(s)
        \/ \E actor \in Users, id \in CaseIds, body \in Bodies : updateCase(s, actor, id, body)
        \/ updateCaseUpdate(s)
        \/ updateCaseSelect(s)
        \/ \E actor \in Users, id \in CaseIds : deleteCase(s, actor, id)
        \/ deleteCaseDelete(s)
        \/ Respond(s)

SpecCase == Init /\ [][NextCase]_vars

\* two case posts already saved by their clients (SaveCasePost), no bid yet
InitBid ==
    /\ InitSql
    /\ casePosts = [p \in PostIds |->
          [client |-> IF p = "p1" THEN "c1" ELSE "c2", status |-> "open"]]
    /\ bids = {}
    /\ reviews = {}
    /\ profiles = EmptyDoc
    /\ userDocs = EmptyDoc
    /\ tasks = {}
    /\ nOps = 0
    /\ lastUpdate = EmptyDoc
    /\ outcome = NoOutcome

NextBid ==
    \/ \E u \in Users, p \in PostIds, a \in Amounts : SaveBid(u, p, a)
    \/ \E b \in bids : RemoveBid(b)
    \/ \E t \in tasks : getAverageBidAggregate(t)
    \/ \E t \in tasks : getAverageBidUpdate(t)

SpecBid == InitBid /\ [][NextBid]_vars

NextPost ==
    \/ \E p \in PostIds, u \in Users : SaveCasePost(p, u)
    \/ \E p \in PostIds, st \in PostStatuses : SetStatus(p, st)

SpecPost == Init /\ [][NextPost]_vars

\* client c1 has posted p1, lawyers l1 and l2 have bid on it, and l1 has a
\* profile without ratings; no review yet
InitReview ==
    /\ InitSql
    /\ casePosts = [p \in {"p1"} |-> [client |-> "c1", status |-> "open"]]
    /\ bids = {[id |-> 101, lawyer |-> "l1", casePost |-> "p1", amount |-> 1],
               [id |-> 102, lawyer |-> "l2", casePost |-> "p1", amount |-> 2]}
    /\ reviews = {}
    /\ profiles = [u \in {"l1"} |->
          [specializations |-> {}, education |-> {}, languages |-> {},
           ratingsAverage |-> 0, ratingsQuantity |-> 0]]
    /\ userDocs = EmptyDoc
    /\ tasks = {}
    /\ nOps = 0
    /\ lastUpdate = EmptyDoc
    /\ outcome = NoOutcome

\* the users who try to review: two clients and a lawyer
Reviewers == {"c1", "c2", "l1"}
Lawyers == {u \in Users : RoleOf(u) = "lawyer"}

NextReview ==
    \/ \E p \in PostIds, st \in PostStatuses : SetStatus(p, st)
    \/ \E p \in PostIds, b \in bids : SetAcceptedBid(p, b)
    \/ \E u \in Reviewers, l \in Lawyers, p \in PostIds, r \in Ratings : SaveReview(u, l, p, r)
    \/ \E r \in reviews : RemoveReview(r)
    \/ \E t \in tasks : getAverageRatingAggregate(t)
    \/ \E t \in tasks : getAverageRatingUpdate(t)

SpecReview == InitReview /\ [][NextReview]_vars

\* clients c1 and c2 have each completed a case with lawyer l1 and reviewed
\* l1 with 4 and 5; no profile yet
InitProfile ==
    /\ InitSql
    /\ casePosts = [p \in PostIds |->
          [client |-> IF p = "p1" THEN "c1" ELSE "c2", status |-> "completed",
           acceptedBid |-> IF p = "p1" THEN 101 ELSE 103]]
    /\ bids = {[id |-> 101, lawyer |-> "l1", casePost |-> "p1", amount |-> 1],
               [id |-> 103, lawyer |-> "l1", casePost |-> "p2", amount |-> 2]}
    /\ reviews = {[id |-> 201, user |-> "c1", lawyer |-> "l1", casePost |-> "p1", rating |-> 4],
                  [id |-> 202, user |-> "c2", lawyer |-> "l1", casePost |-> "p2", rating |-> 5]}
    /\ profiles = EmptyDoc
    /\ userDocs = [u \in {"l1"} |-> [averageRating |-> 45, reviewCount |-> 2]]
    /\ tasks = {}
    /\ nOps = 0
    /\ lastUpdate = EmptyDoc
    /\ outcome = NoOutcome

\* the users a profile is saved for: a lawyer and a client
ProfileUsers == {"l1", "c1"}

NextProfile ==
    \/ \E u \in ProfileUsers, fields \in ProfileInputs, strictCast \in BOOLEAN :
          SaveProfile(u, fields, strictCast)
    \/ \E t \in tasks : calcAverageRatingAggregate(t)
    \/ \E t \in tasks : calcAverageRatingUpdate(t)

SpecProfile == InitProfile /\ [][NextProfile]_vars

\* client c1 has completed case p1 with lawyer l1, whose bid 101 was accepted;
\* no review yet
InitHooks ==
    /\ InitSql
    /\ casePosts = [p \in {"p1"} |->
          [client |-> "c1", status |-> "completed", acceptedBid |-> 101]]
    /\ bids = {[id |-> 101, lawyer |-> "l1", casePost |-> "p1", amount |-> 1]}
    /\ reviews = {}
    /\ profiles = EmptyDoc
    /\ userDocs = EmptyDoc
    /\ tasks = {}
    /\ nOps = 0
    /\ lastUpdate = EmptyDoc
    /\ outcome = NoOutcome

\* bids and reviews on p1, with recomputes that may throw at either await
NextHooks ==
    \/ \E l \in Lawyers, a \in Amounts : SaveBid(l, "p1", a)
    \/ \E b \in bids : RemoveBid(b)
    \/ \E l \in Lawyers, r \in Ratings : SaveReview("c1", l, "p1", r)
    \/ \E r \in reviews : RemoveReview(r)
    \/ \E t \in tasks : getAverageBidAggregate(t)
    \/ \E t \in tasks : getAverageBidAggregateThrows(t)
    \/ \E t \in tasks : getAverageBidUpdate(t)
    \/ \E t \in tasks : getAverageBidUpdateThrows(t)
    \/ \E t \in tasks : getAverageRatingAggregate(t)
    \/ \E t \in tasks : getAverageRatingAggregateThrows(t)
    \/ \E t \in tasks : getAverageRatingUpdate(t)
    \/ \E t \in tasks : getAverageRatingUpdateThrows(t)

SpecHooks == InitHooks /\ [][NextHooks]_vars

----------------------------------------------------------------------------
(* Claims about the case controller *)

\* a request of slot s completes in this step
Completes(s) == reqs[s].pc # "done" /\ reqs'[s].pc = "done"

\* the cases the spec lets an actor see
VisibleTo(actor) ==
    {r \in cases : \/ RoleOf(actor) = "admin"
                   \/ RoleOf(actor) = "client" /\ r.user_id = actor
                   \/ RoleOf(actor) = "lawyer" /\ r.status = "open"}

\* C7: getAllCases returns exactly the cases visible to the actor's role (own
\* cases for a client, open cases for a lawyer, all for an admin); getCaseById
\* returns the case when it is visible and otherwise answers 404, never 403,
\* whether the id is absent or only hidden from the actor.
C7_RoleScopedReads ==
    [][\A s \in Slots :
        /\ (Completes(s) /\ reqs'[s].handler = "getAllCases")
              => /\ reqs'[s].code = 200
                 /\ reqs'[s].rows = VisibleTo(reqs'[s].actor)
        /\ (Completes(s) /\ reqs'[s].handler = "getCaseById")
              => LET seen == {r \in VisibleTo(reqs'[s].actor) : r.id = reqs'[s].id}
                 IN IF seen = {}
                    THEN reqs'[s].code = 404 /\ reqs'[s].rows = {}
                    ELSE reqs'[s].code = 200 /\ reqs'[s].rows = seen]_vars

\* a client was answered 404 for an existing case owned by somebody else
C7_Witness ==
    \E s \in Slots :
        /\ reqs[s].pc = "done" /\ reqs[s].handler = "getCaseById"
        /\ reqs[s].code = 404 /\ RoleOf(reqs[s].actor) = "client"
        /\ \E r \in cases : r.id = reqs[s].id /\ r.user_id # reqs[s].actor

\* the request of slot s passes its existence/permission check in this step
Checks(s, handler) == reqs[s].pc = "idle" /\ reqs'[s].handler = handler

MayWrite(actor, r) == RoleOf(actor) = "admin" \/ r.user_id = actor

\* C8: updateCase and deleteCase answer 404 when the id is absent (whoever
\* asks), 403 when the case exists and the actor is neither admin nor owner,
\* and go on to their UPDATE/DELETE statement otherwise; a denied request
\* leaves the table unchanged, and a row is only ever modified or removed by
\* a request of an admin or of the row's owner.
C8_WriteAuthorization ==
    [][/\ \A s \in Slots : \A h \in {"updateCase", "deleteCase"} :
            Checks(s, h) =>
              LET target == {r \in cases : r.id = reqs'[s].id}
                  a == reqs'[s].actor
              IN /\ cases' = cases
                 /\ (target = {}) <=> (reqs'[s].code = 404)
                 /\ (target # {} /\ \A r \in target : ~MayWrite(a, r))
                       <=> (reqs'[s].code = 403)
                 /\ (target # {} /\ \A r \in target : MayWrite(a, r))
                       <=> (reqs'[s].pc = IF h = "updateCase" THEN "update" ELSE "delete")
                 /\ reqs'[s].code \in {403, 404} <=> reqs'[s].pc = "done"
       /\ \A r \in cases : r \notin cases' =>
            \E s \in Slots :
                /\ reqs[s].pc \in {"update", "delete"}
                /\ reqs[s].id = r.id
                /\ MayWrite(reqs[s].actor, r)]_vars

\* a non-owner client was answered 403 for an existing case, which is still stored
C8_Witness ==
    \E s \in Slots :
        /\ reqs[s].pc = "done" /\ reqs[s].handler \in {"updateCase", "deleteCase"}
        /\ reqs[s].code = 403 /\ RoleOf(reqs[s].actor) = "client"
        /\ \E r \in cases : r.id = reqs[s].id /\ r.user_id # reqs[s].actor

\* the CasePost collection's side of C9: pre('save') lets only clients post
CasePostClientsAreClients ==
    \A p \in DOMAIN casePosts : RoleOf(casePosts[p].client) = "client"

\* C9: createCase answers 403 and inserts nothing for a lawyer or an admin;
\* for a client it inserts exactly one new row, owned by the actor, with
\* status 'open' and the body's title, description and category, and then
\* answers 201; rows are inserted by nothing else, so every stored case is
\* owned by a client.
C9_OnlyClientsCreate ==
    /\ [](\A r \in cases : RoleOf(r.user_id) = "client")
    /\ [][/\ \A s \in Slots : Checks(s, "createCase") =>
               LET a == reqs'[s].actor
               IN IF RoleOf(a) # "client"
                  THEN /\ reqs'[s].pc = "done" /\ reqs'[s].code = 403
                       /\ cases' = cases
                  ELSE /\ reqs'[s].pc = "created"
                       /\ \E r \in cases' \ cases :
                            /\ cases' = cases \cup {r}
                            /\ r.id = reqs'[s].id
                            /\ r.id \notin {c.id : c \in cases}
                            /\ r.user_id = a /\ r.status = "open"
                            /\ r.title = reqs'[s].body.title
                            /\ r.description = reqs'[s].body.description
                            /\ r.category = reqs'[s].body.category
          /\ \A s \in Slots : reqs[s].pc = "created" /\ reqs'[s] # reqs[s] =>
               /\ reqs'[s].pc = "done" /\ reqs'[s].code = 201
               /\ cases' = cases
          /\ \A r \in cases' : r.id \notin {c.id : c \in cases} =>
               \E s \in Slots : Checks(s, "createCase")]_vars

\* a client was answered 201 with the open case the request inserted, and a
\* lawyer or admin was answered 403
C9_Witness ==
    \E s, t \in Slots :
        /\ reqs[s].pc = "done" /\ reqs[s].handler = "createCase" /\ reqs[s].code = 201
        /\ \E r \in reqs[s].rows :
              r \in cases /\ r.user_id = reqs[s].actor /\ r.status = "open"
        /\ reqs[t].pc = "done" /\ reqs[t].handler = "createCase" /\ reqs[t].code = 403
        /\ RoleOf(reqs[t].actor) # "client"

----------------------------------------------------------------------------
(* Claims about bids and the average-bid aggregate *)

BidsOf(p) == {b \in bids : b.casePost = p}

Pending(kind, key) ==
    \E t \in tasks : t.kind = kind /\ t.key = key /\ t.phase \in {"scan", "update"}

\* the ceiling of the mean of the amounts of S, 0 for no bid
CeilMean(S) ==
    IF S = {} THEN 0
    ELSE CHOOSE k \in 0..SumAmount(S) :
            /\ k * Cardinality(S) >= SumAmount(S)
            /\ (k - 1) * Cardinality(S) < SumAmount(S)

\* C1: once every recompute triggered by the bid creates and deletes on a
\* case has finished, the stored CasePost carries bidCount = the number of
\* bids stored for the case and averageBid = the ceiling of their mean
\* amount (0 for none).
C1_AggregateMatchesBids ==
    \A p \in DOMAIN casePosts :
        (p \in DOMAIN lastUpdate /\ ~Pending("getAverageBid", p)) =>
            /\ "bidCount" \in DOMAIN casePosts[p]
            /\ "averageBid" \in DOMAIN casePosts[p]
            /\ casePosts[p].bidCount = Cardinality(BidsOf(p))
            /\ casePosts[p].averageBid = CeilMean(BidsOf(p))

\* C3: whatever the interleaving of the scans and updates of concurrent
\* recomputes, once all of them have completed the aggregate last written
\* for the case (the only value its bidCount/averageBid can then hold) is the
\* one computed from the final set of bids.
C3_RecomputesConverge ==
    \A p \in DOMAIN lastUpdate :
        ~Pending("getAverageBid", p) =>
            /\ lastUpdate[p].bidCount = Cardinality(BidsOf(p))
            /\ lastUpdate[p].averageBid = CeilMean(BidsOf(p))

\* a save()/remove() call is made in this step
Called(op) == (outcome' # outcome \/ nOps' # nOps) /\ outcome'.op = op

C5_OnlyLawyersBid ==
    /\ [](\A b \in bids : RoleOf(b.lawyer) = "lawyer")
    /\ [][(Called("Bid.save") /\ RoleOf(outcome'.by) # "lawyer")
          => /\ outcome'.err = "Only lawyers can place bids"
             /\ bids' = bids
             /\ tasks' = tasks
             /\ casePosts' = casePosts]_vars

\* an admin's bid was just rejected while lawyers' bids are stored
C5_Witness ==
    /\ outcome.op = "Bid.save" /\ RoleOf(outcome.by) = "admin"
    /\ outcome.err = "Only lawyers can place bids"
    /\ bids # {}

----------------------------------------------------------------------------
(* Claims about reviews, ratings and profiles *)

ReviewsOf(l) == {r \in reviews : r.lawyer = l}

\* the mean rating of S rounded to one decimal, in tenths, 0 for no review
MeanTenths(S) ==
    IF S = {} THEN 0
    ELSE CHOOSE k \in 0..(10 * SumRating(S)) :
            /\ 2 * k * Cardinality(S) <= 20 * SumRating(S) + Cardinality(S)
            /\ 20 * SumRating(S) + Cardinality(S) < 2 * (k + 1) * Cardinality(S)

\* C2: once the recompute of a Review create or delete targeting lawyer Y
\* has finished, Y's LawyerProfile carries ratingsQuantity = the number of
\* reviews stored for Y and ratingsAverage = their mean rating rounded to one
\* decimal (0 for none).
C2_ProfileRatingsMatchReviews ==
    \A l \in DOMAIN profiles :
        (l \in DOMAIN userDocs /\ ~Pending("getAverageRating", l)) =>
            /\ profiles[l].ratingsQuantity = Cardinality(ReviewsOf(l))
            /\ profiles[l].ratingsAverage = MeanTenths(ReviewsOf(l))

\* the client has a completed case whose accepted bid is the lawyer's
Engaged(user, lawyer, p) ==
    /\ p \in DOMAIN casePosts
    /\ casePosts[p].client = user
    /\ casePosts[p].status = "completed"
    /\ "acceptedBid" \in DOMAIN casePosts[p]
    /\ \E b \in bids : b.id = casePosts[p].acceptedBid /\ b.lawyer = lawyer

\* C6: a Review create by a client, with no earlier review of the same
\* (user, lawyer, casePost), succeeds exactly when at that moment the case
\* post is the reviewer's, is completed and has an accepted bid of the target
\* lawyer; otherwise it fails with the no-completed-engagement error and
\* stores nothing.
C6_ReviewNeedsEngagement ==
    [][(/\ Called("Review.save")
        /\ RoleOf(outcome'.by) = "client"
        /\ ~\E r \in reviews : /\ r.user = outcome'.by /\ r.lawyer = outcome'.to
                               /\ r.casePost = outcome'.on)
       => IF Engaged(outcome'.by, outcome'.to, outcome'.on)
          THEN /\ outcome'.err = "ok"
               /\ \E r \in reviews' \ reviews :
                     /\ reviews' = reviews \cup {r}
                     /\ r.user = outcome'.by /\ r.lawyer = outcome'.to
                     /\ r.casePost = outcome'.on
          ELSE /\ outcome'.err =
                     "You can only review lawyers you've worked with on a completed case"
               /\ reviews' = reviews /\ tasks' = tasks]_vars

\* a client's review has just been stored by the very call that had failed
\* before the case was completed and accepted
C6_Witness ==
    /\ outcome.op = "Review.save" /\ outcome.err = "ok" /\ outcome.again
    /\ RoleOf(outcome.by) = "client"
    /\ \E r \in reviews : /\ r.user = outcome.by /\ r.lawyer = outcome.to
                          /\ r.casePost = outcome.on

\* C10: after a successful LawyerProfile write isProfileComplete is the
\* boolean TRUE when bio, specializations, education and languages are
\* non-empty and experience is defined, and the boolean FALSE otherwise.
C10_ProfileCompleteFlag ==
    \A u \in DOMAIN profiles :
        /\ "isProfileComplete" \in DOMAIN profiles[u]
        /\ profiles[u].isProfileComplete =
              (/\ "bio" \in DOMAIN profiles[u] /\ profiles[u].bio # ""
               /\ profiles[u].specializations # {}
               /\ "experience" \in DOMAIN profiles[u]
               /\ profiles[u].education # {}
               /\ profiles[u].languages # {})

----------------------------------------------------------------------------
(* Claims about failing and pending recomputes *)

\* the recomputes that have thrown
Failed == {t \in tasks : t.phase \in {"rejected", "logged"}}

\* C11: a recompute that throws, at its collection scan or at its aggregate
\* update, changes no bid, no review and no result already reported; the
\* save()/remove() that started a recompute has reported success, with the
\* document a save() wrote stored; and a stored bid or review disappears only
\* through a remove() of its own
C11_RecomputeFailureNotSurfaced ==
    [][/\ Failed' # Failed =>
             /\ bids' = bids /\ reviews' = reviews /\ outcome' = outcome
       /\ \A t \in tasks' \ tasks : t.phase = "scan" =>
             /\ outcome'.err = "ok"
             /\ outcome'.op = "Bid.save" => \E b \in bids' : b.id = t.id
             /\ outcome'.op = "Review.save" => \E r \in reviews' : r.id = t.id
       /\ bids \ bids' # {} => Called("Bid.remove") /\ outcome'.err = "ok"
       /\ reviews \ reviews' # {} => Called("Review.remove") /\ outcome'.err = "ok"
      ]_vars

\* the recompute of a saved bid was rejected at its scan and the recompute of
\* a saved review failed at its update; both documents are stored and the last
\* save reported success
C11_Witness ==
    /\ outcome.err = "ok"
    /\ \E t \in Failed : /\ t.kind = "getAverageBid" /\ t.phase = "rejected"
                         /\ \E b \in bids : b.id = t.id
    /\ \E t \in Failed : /\ t.kind = "getAverageRating" /\ t.phase = "logged"
                         /\ \E r \in reviews : r.id = t.id

\* C12: when a Bid or Review save()/remove() has returned successfully, the
\* recompute it triggered has scanned the collection and persisted the
\* aggregate: no recompute is pending between operations
C12_NoRecomputePending ==
    (outcome.err = "ok" /\ outcome.op \in {"Bid.save", "Bid.remove", "Review.save", "Review.remove"})
        => \A t \in tasks : t.phase \notin {"scan", "update"}

----------------------------------------------------------------------------
(* Claims about interleaved case requests and the frame of updateCase *)

\* C13: updateCase never reports success for a case that no longer exists,
\* also when a deleteCase of the same id commits between its existence check
\* and its UPDATE: every updateCase response that is not an error carries the
\* row of the case
C13_UpdateRespondsWithStoredRow ==
    \A s \in Slots :
        (reqs[s].pc = "done" /\ reqs[s].handler = "updateCase" /\ reqs[s].code = 200) =>
            \E r \in reqs[s].rows : r.id = reqs[s].id

\* the row stored under an id
RowOf(S, id) == CHOOSE r \in S : r.id = id

\* the actors the permission check of updateCase / deleteCase lets through
AuthorizedFor(r) == {u \in Users : ~NotAuthorized(u, r)}

\* C14: ids are unique and never reused, and no step changes the id, owner,
\* creation time, currency or budget of a stored case; the UPDATE of
\* updateCase sets title, description, category, status and updated_at of the
\* addressed case from the request and leaves every other case as it was; so
\* the actors authorized for a case are the same from its creation until its
\* deletion
C14_UpdateKeepsOwnerAndId ==
    /\ [](\A r1, r2 \in cases : r1.id = r2.id => r1 = r2)
    /\ [](\A r \in cases : r.id < nextId)
    /\ [][/\ nextId' >= nextId
          /\ \A r \in cases : \A q \in cases' : q.id = r.id =>
                /\ q.user_id = r.user_id
                /\ q.created_at = r.created_at
                /\ q.currency = r.currency
                /\ q.budget = r.budget
                /\ AuthorizedFor(q) = AuthorizedFor(r)
          /\ \A s \in Slots :
                (reqs[s].pc = "update" /\ reqs'[s].pc = "updated") =>
                    /\ {q.id : q \in cases'} = {r.id : r \in cases}
                    /\ \A r \in cases :
                          IF r.id # reqs[s].id THEN r \in cases'
                          ELSE LET q == RowOf(cases', r.id)
                               IN /\ q.title = reqs[s].body.title
                                  /\ q.description = reqs[s].body.description
                                  /\ q.category = reqs[s].body.category
                                  /\ q.status = reqs[s].body.status
                                  /\ q.updated_at = now
         ]_vars

\* an admin who does not own the case has updated it: the response carries the
\* row with the requested title and a later update time, still owned by its
\* creator, next to another stored case
C14_Witness ==
    \E s \in Slots :
        /\ reqs[s].pc = "done" /\ reqs[s].handler = "updateCase" /\ reqs[s].code = 200
        /\ RoleOf(reqs[s].actor) = "admin"
        /\ \E r \in cases :
              /\ r.id = reqs[s].id
              /\ r \in reqs[s].rows
              /\ r.title = reqs[s].body.title
              /\ r.updated_at > r.created_at
              /\ r.user_id \notin {reqs[s].actor, Null}
        /\ \E r \in cases : r.id # reqs[s].id

====
